---------------------------- MODULE Spec2Model ----------------------------
(***************************************************************************)
(* A model of the eBay listing scrapers of this repository:                *)
(*   src/ebay_reisegitarren_scraper.py  (single page, selector chains,     *)
(*                                       cookie banner, item-id regex)     *)
(*   src/Scraping/e_bay_scraping.py     (paginated template: URL parameter *)
(*                                       or "Next" button)                 *)
(* Text is a sequence of one-character strings, so that str.strip, the     *)
(* f-string formatting and the regular expressions are computed character  *)
(* by character.  The browser (Selenium driver, DOM, web site) is the      *)
(* environment: every answer it can give is a nondeterministic choice.     *)
(***************************************************************************)
EXTENDS Integers, Sequences, FiniteSets, TLC

VARIABLES
    fn,          \* function harness: the function applied ("none" at start)
    arg,         \* function harness: its argument(s)
    res,         \* function harness: what it returned
    mode,        \* main of e_bay_scraping.py: PAGINATION_MODE, "url" or
                 \*   "next_button"; "single" for the main of
                 \*   ebay_reisegitarren_scraper.py
    ajax,        \* the site: TRUE if its next control changes the page in
                 \*   place, without changing the URL
    per_page,    \* the site: the number of listing elements on a page
    pc,          \* main: where control is
    page,        \* main: the loop variable
    all_results, \* main: the records gathered so far
    driver,      \* "none", "open", "quit"
    exc,         \* the call whose exception is propagating, or "none"
    csv,         \* the rows handed to save_to_csv
    saved,       \* "no", "csv" (save_to_csv was called), "nodata"
    render,      \* the site page the browser shows (0: none yet)
    url_page,    \* the site page driver.current_url designates
    requests,    \* history: the URLs passed to driver.get, in order
    visits,      \* history: what each scrape_page call returned, in order
    scrapes,     \* history: the number of scrape_page calls
    clicks,      \* history: the number of completed btn.click() calls
    quits,       \* history: the number of driver.quit() calls
    btn_seen,    \* history: what the browser did for the last click_next call
    why,         \* history: what ended the pagination loop
    success,     \* main: what the last click_next call returned ("true",
                 \*   "false"; "none" before the first call)
    bpc,         \* dismiss_cookie_banner: where control is
    cand,        \* dismiss_cookie_banner: the index of the candidate at hand
    els,         \* the elements of that candidate not tried yet (a number)
    iframes,     \* the iframes not swept yet (a number)
    btns,        \* the buttons and links of the frame not looked at yet
    context,     \* the document the driver is in: "top" or "frame"
    ret,         \* "none", then "true", "false" or "raised"
    activated,   \* history: the number of try_click calls that returned True
    matched_top, \* history: a candidate lookup found an element
    matched_frame, \* history: a frame showed a button with an accept-like text
    entered,     \* history: a frame was entered
    last_click,  \* history: the last try_click call, what the element did
                 \*   and what the call gave
    swallowed,   \* history: an exception was caught
    visible      \* the element clicked: "yes" if it was still there after
                 \*   the click (in a frame) or the wait for its
                 \*   disappearance, "no" if it was gone, else "unknown"

fnVars == <<fn, arg, res>>

runVars ==
    << mode, ajax, per_page, pc, page, all_results, driver, exc, csv, saved, render,
       url_page, requests, visits, scrapes, clicks, quits, btn_seen, why, success >>

bannerVars ==
    << bpc, cand, els, iframes, btns, context, ret, activated, matched_top,
       matched_frame, entered, last_click, swallowed, visible >>

vars == <<fnVars, runVars, bannerVars>>

(***************************************************************************)
(* Text helpers                                                            *)
(***************************************************************************)
Digits == <<"0", "1", "2", "3", "4", "5", "6", "7", "8", "9">>

DigitChars == {Digits[i] : i \in 1..10}

IsDigit(c) == c \in DigitChars

\* The elements of a sequence.
Range(s) == {s[i] : i \in 1..Len(s)}

\* All sequences over S of length at most n.
SeqUpTo(S, n) == UNION {[1..k -> S] : k \in 0..n}

RECURSIVE Concat(_)
\* The concatenation of a sequence of sequences.
Concat(ss) == IF ss = <<>> THEN <<>> ELSE Head(ss) \o Concat(Tail(ss))

(***************************************************************************)
(* extract_item_id_from_url  (src/ebay_reisegitarren_scraper.py:184-195)   *)
(***************************************************************************)
\* {6,} in both regular expressions.
MIN_ID_DIGITS == 6

\* "/itm/"
ItmMarker == <<"/", "i", "t", "m", "/">>

NoMatch == [ok |-> FALSE, group |-> <<>>]

RECURSIVE DigitRunLen(_, _)
\* How many digits stand at positions q, q+1, ... of url.
DigitRunLen(url, q) ==
    IF q <= Len(url) /\ IsDigit(url[q]) THEN 1 + DigitRunLen(url, q + 1) ELSE 0

\* (\d{6,}) tried at position q: greedy, so the whole run that starts there.
MatchDigitsAt(url, q) ==
    LET n == DigitRunLen(url, q)
    IN  IF n >= MIN_ID_DIGITS
        THEN [ok |-> TRUE, group |-> SubSeq(url, q, q + n - 1)]
        ELSE NoMatch

\* The literal /itm/ at position p.
MarkerAt(url, p) ==
    /\ p >= 1
    /\ p + Len(ItmMarker) - 1 <= Len(url)
    /\ SubSeq(url, p, p + Len(ItmMarker) - 1) = ItmMarker

RECURSIVE LazySegmentAt(_, _, _)
\* (?:.*?/) then (\d{6,}), the lazy .*? having consumed k characters after
\* position q0 - 1: the shortest k is tried first, one more character at a
\* time ('.' takes any character but a line break).
LazySegmentAt(url, q0, k) ==
    IF q0 + k > Len(url) THEN NoMatch
    ELSE LET here == IF url[q0 + k] = "/"
                     THEN MatchDigitsAt(url, q0 + k + 1)
                     ELSE NoMatch
         IN  IF here.ok THEN here
             ELSE IF url[q0 + k] = "\n" THEN NoMatch
             ELSE LazySegmentAt(url, q0, k + 1)

\* /itm/(?:.*?/)?(\d{6,}) tried at position p.  The optional group is greedy:
\* the match with the segment is tried first, the one without it second.
AnchoredAt(url, p) ==
    IF ~MarkerAt(url, p) THEN NoMatch
    ELSE LET q0 == p + Len(ItmMarker)
             withSegment == LazySegmentAt(url, q0, 0)
         IN  IF withSegment.ok THEN withSegment ELSE MatchDigitsAt(url, q0)

RECURSIVE SearchAnchored(_, _)
\* re.search(r"/itm/(?:.*?/)?(\d{6,})", url): the leftmost position that matches.
SearchAnchored(url, p) ==
    IF p > Len(url) THEN NoMatch
    ELSE LET m == AnchoredAt(url, p)
         IN  IF m.ok THEN m ELSE SearchAnchored(url, p + 1)

RECURSIVE SearchDigitsLast(_, _)
\* The mutant of SearchDigits: the rightmost match instead of the leftmost.
SearchDigitsLast(url, p) ==
    IF p > Len(url) THEN NoMatch
    ELSE LET later == SearchDigitsLast(url, p + 1)
         IN  IF later.ok THEN later ELSE MatchDigitsAt(url, p)

RECURSIVE SearchDigits(_, _)
\* re.search(r"(\d{6,})", url): the leftmost position that matches.
SearchDigits(url, p) ==
    IF p > Len(url) THEN NoMatch
    ELSE LET m == MatchDigitsAt(url, p)
         IN  IF m.ok THEN m ELSE SearchDigits(url, p + 1)

\* The mutant of extract_item_id_from_url: the unanchored scan comes first.
extract_item_id_unanchored_first(url) ==
    IF url = <<>> THEN <<>>
    ELSE LET m2 == SearchDigits(url, 1)
         IN  IF m2.ok THEN m2.group
             ELSE LET m == SearchAnchored(url, 1)
                  IN  IF m.ok THEN m.group ELSE <<>>

extract_item_id_from_url(url) ==
    IF url = <<>> THEN <<>>
    ELSE LET m == SearchAnchored(url, 1)
         IN  IF m.ok THEN m.group
             ELSE LET m2 == SearchDigits(url, 1)
                  IN  IF m2.ok THEN m2.group ELSE <<>>

(***************************************************************************)
(* The URLs the identifier is derived from: up to MaxUrlPieces pieces, so  *)
(* that markers, short and long digit runs, path separators and query      *)
(* parts meet in every order (two digit pieces side by side make one run). *)
(***************************************************************************)
MaxUrlPieces == 4

UrlPieces ==
    { ItmMarker,
      <<"/">>,
      <<"a", "b">>,
      <<"?">>,
      <<"1", "2", "3", "4", "5">>,
      <<"1", "2", "3", "4", "5", "6">>,
      <<"9", "9", "8", "8", "7", "7", "6">> }

Urls == {Concat(ps) : ps \in SeqUpTo(UrlPieces, MaxUrlPieces)}

\* No click_next call so far.
\* No try_click call yet.
NoClick ==
    [ called |-> FALSE, el |-> [click |-> "ok", script |-> "ok"],
      out |-> [returned |-> FALSE, script_run |-> FALSE, raised |-> FALSE] ]

NoButton ==
    [ find |-> "none", attr |-> "ok", disabled |-> [present |-> FALSE, value |-> <<>>],
      click |-> "ok", stale |-> "ok" ]

\* The state in which main has not been started.
RunIdle ==
    /\ mode = "url"
    /\ ajax = FALSE
    /\ per_page = 1
    /\ pc = "idle"
    /\ page = 0
    /\ all_results = <<>>
    /\ driver = "none"
    /\ exc = "none"
    /\ csv = <<>>
    /\ saved = "no"
    /\ render = 0
    /\ url_page = 0
    /\ requests = <<>>
    /\ visits = <<>>
    /\ scrapes = 0
    /\ clicks = 0
    /\ quits = 0
    /\ btn_seen = NoButton
    /\ why = "none"
    /\ success = "none"

\* The state of a dismiss_cookie_banner call whose control is at c.
BannerAt(c) ==
    /\ bpc = c
    /\ cand = 1
    /\ els = 0
    /\ iframes = 0
    /\ btns = 0
    /\ context = "top"
    /\ ret = "none"
    /\ activated = 0
    /\ matched_top = FALSE
    /\ matched_frame = FALSE
    /\ entered = FALSE
    /\ last_click = NoClick
    /\ swallowed = FALSE
    /\ visible = "unknown"

\* The state in which dismiss_cookie_banner has not been called.
BannerIdle == BannerAt("idle")

InitFn ==
    /\ fn = "none"
    /\ arg = <<>>
    /\ res = <<>>
    /\ RunIdle
    /\ BannerIdle

\* One application of the function per behaviour.
CallExtractItemId ==
    \E url \in Urls :
        /\ fn = "none"
        /\ fn' = "extract_item_id_from_url"
        /\ arg' = url
        /\ res' = extract_item_id_from_url(url)
        /\ UNCHANGED <<runVars, bannerVars>>

SpecId == InitFn /\ [][CallExtractItemId]_vars

(***************************************************************************)
(* What the claims about the identifier say, stated over the characters of *)
(* the URL and not through the search.                                     *)
(***************************************************************************)
\* A digit run of length >= MIN_ID_DIGITS begins at position q.
LongRunAt(url, q) ==
    /\ q \in 1..Len(url)
    /\ q = 1 \/ ~IsDigit(url[q - 1])
    /\ \A i \in q..(q + MIN_ID_DIGITS - 1) : i <= Len(url) /\ IsDigit(url[i])

\* The whole digit run that begins at position q.
RunFrom(url, q) ==
    SubSeq(url, q,
           CHOOSE e \in q..Len(url) :
               /\ \A i \in q..e : IsDigit(url[i])
               /\ e = Len(url) \/ ~IsDigit(url[e + 1]))

\* The long run at q is anchored to the marker at p: it follows the marker
\* directly, or follows a "/" that comes after the marker.
AnchoredRunAt(url, p, q) ==
    /\ MarkerAt(url, p)
    /\ q >= p + Len(ItmMarker)
    /\ LongRunAt(url, q)
    /\ url[q - 1] = "/"

HasAnchoredRun(url) ==
    \E p \in 1..Len(url), q \in 1..Len(url) : AnchoredRunAt(url, p, q)

HasLongRun(url) == \E q \in 1..Len(url) : LongRunAt(url, q)

FirstLongRun(url) ==
    RunFrom(url, CHOOSE q \in 1..Len(url) :
                     /\ LongRunAt(url, q)
                     /\ \A q2 \in 1..(q - 1) : ~LongRunAt(url, q2))

IdCalled == fn = "extract_item_id_from_url"

C5_AnchoredFirst ==
    (IdCalled /\ HasAnchoredRun(arg)) =>
        \E p \in 1..Len(arg), q \in 1..Len(arg) :
            AnchoredRunAt(arg, p, q) /\ res = RunFrom(arg, q)

\* C5 witness: the leftmost long run stands before every marker and is not
\* what is returned; the run after an intermediate segment is.
C5_Witness ==
    /\ IdCalled
    /\ HasAnchoredRun(arg)
    /\ FirstLongRun(arg) # res
    /\ \A p \in 1..Len(arg) : MarkerAt(arg, p) => ~LongRunAt(arg, p + Len(ItmMarker))
    /\ \E q \in 1..Len(arg) :
           /\ LongRunAt(arg, q) /\ RunFrom(arg, q) = FirstLongRun(arg)
           /\ \A p \in 1..Len(arg) : MarkerAt(arg, p) => q < p

(***************************************************************************)
(* build_url_for_page  (src/Scraping/e_bay_scraping.py:58-63)              *)
(***************************************************************************)
\* PAGE_PARAM_NAME = "page"
PAGE_PARAM_NAME == <<"p", "a", "g", "e">>

RECURSIVE IntToStr(_)
\* What an f-string makes of an int: "-" and the decimal digits, no padding.
IntToStr(n) ==
    IF n < 0 THEN <<"-">> \o IntToStr(0 - n)
    ELSE IF n < 10 THEN <<Digits[n + 1]>>
    ELSE IntToStr(n \div 10) \o <<Digits[(n % 10) + 1]>>

\* The mutant of build_url_for_page: the parameter is always appended with "?".
build_url_always_question(base_url, page_number) ==
    base_url \o <<"?">> \o PAGE_PARAM_NAME \o <<"=">> \o IntToStr(page_number)

build_url_for_page(base_url, page_number) ==
    IF "?" \in Range(base_url)
    THEN base_url \o <<"&">> \o PAGE_PARAM_NAME \o <<"=">> \o IntToStr(page_number)
    ELSE base_url \o <<"?">> \o PAGE_PARAM_NAME \o <<"=">> \o IntToStr(page_number)

\* The base URLs and page numbers the function is applied to.
MaxBasePieces == 3

MaxPageArg == 12

BasePieces ==
    { <<"h", ":">>, <<"/", "y">>, <<"?">>, <<"z", "=", "1">>, <<"&">>, <<"#">> }

BaseUrls == {Concat(ps) : ps \in SeqUpTo(BasePieces, MaxBasePieces)}

CallBuildUrl ==
    \E base \in BaseUrls, n \in 0..MaxPageArg :
        /\ fn = "none"
        /\ fn' = "build_url_for_page"
        /\ arg' = [base_url |-> base, page_number |-> n]
        /\ res' = build_url_for_page(base, n)
        /\ UNCHANGED <<runVars, bannerVars>>

SpecUrl == InitFn /\ [][CallBuildUrl]_vars

\* A canonical decimal numeral: digits only, no leading zero.
IsNumeral(s) ==
    /\ Len(s) >= 1
    /\ \A i \in 1..Len(s) : IsDigit(s[i])
    /\ Len(s) = 1 \/ s[1] # "0"

DigitValue(c) == (CHOOSE i \in 1..10 : Digits[i] = c) - 1

RECURSIVE NumeralValue(_)
NumeralValue(s) ==
    IF s = <<>> THEN 0
    ELSE 10 * NumeralValue(SubSeq(s, 1, Len(s) - 1)) + DigitValue(s[Len(s)])

\* url is base, then the separator, then "page=", then the numeral of n.
IsPageUrl(url, base, sep, n) ==
    LET b == Len(base)
        k == Len(PAGE_PARAM_NAME)
    IN  /\ Len(url) >= b + k + 3
        /\ SubSeq(url, 1, b) = base
        /\ url[b + 1] = sep
        /\ SubSeq(url, b + 2, b + 1 + k) = PAGE_PARAM_NAME
        /\ url[b + k + 2] = "="
        /\ IsNumeral(SubSeq(url, b + k + 3, Len(url)))
        /\ NumeralValue(SubSeq(url, b + k + 3, Len(url))) = n

\* The base has a query string: a "?" occurs in it.
HasQuery(base) == \E i \in 1..Len(base) : base[i] = "?"

\* C6: the URL of page n is base + "?" + "page=" + n when the base has no
\* query string and base + "&" + "page=" + n when it has one.
C6_PageUrl ==
    fn = "build_url_for_page" =>
        IsPageUrl(res, arg.base_url,
                  IF HasQuery(arg.base_url) THEN "&" ELSE "?", arg.page_number)

\* C6 witness: a base with a query string and a two-digit page number.
C6_Witness ==
    /\ fn = "build_url_for_page"
    /\ HasQuery(arg.base_url)
    /\ arg.page_number >= 10
    /\ res[Len(arg.base_url) + 1] = "&"

(***************************************************************************)
(* What the browser answers.  A lookup of a selector below an element      *)
(* (find_element) ends in one of                                           *)
(*   nosuch     NoSuchElementException                                     *)
(*   error      another exception of the lookup (invalid selector, stale   *)
(*              scope, lost session)                                       *)
(*   readerror  an element is found, reading it raises (it went stale)     *)
(*   elem       an element is found: its tag, text and href attribute      *)
(* An attribute value is None or a string.                                 *)
(***************************************************************************)
None == [present |-> FALSE, value |-> <<>>]

Str(v) == [present |-> TRUE, value |-> v]

NoSuch == [kind |-> "nosuch"]

LookupError == [kind |-> "error"]

ReadError == [kind |-> "readerror"]

Elem(tag, text, href) == [kind |-> "elem", tag |-> tag, text |-> text, href |-> href]

\* str.strip(): leading and trailing whitespace removed.
Whitespace == {" ", "\n", "\t"}

RECURSIVE LStrip(_)
LStrip(s) == IF s # <<>> /\ Head(s) \in Whitespace THEN LStrip(Tail(s)) ELSE s

RECURSIVE RStrip(_)
RStrip(s) ==
    IF s # <<>> /\ s[Len(s)] \in Whitespace
    THEN RStrip(SubSeq(s, 1, Len(s) - 1))
    ELSE s

\* The mutant of Strip: only the left side is stripped.
StripLeftOnly(s) == LStrip(s)

Strip(s) == RStrip(LStrip(s))

(***************************************************************************)
(* find_first_text  (src/ebay_reisegitarren_scraper.py:147-163)            *)
(* chain is selectors.split(",") with each part stripped; "" is a blank    *)
(* part.  item maps a selector to the answer of item.find_element for it.  *)
(* The result says whether the call raised, the value returned and the     *)
(* selectors that were looked up, in order.                                *)
(***************************************************************************)
Returned(value, probed) == [raised |-> FALSE, value |-> value, probed |-> probed]

Raised(probed) == [raised |-> TRUE, value |-> <<>>, probed |-> probed]

RECURSIVE find_first_text_from(_, _, _, _)
find_first_text_from(item, chain, i, probed) ==
    IF i > Len(chain) THEN Returned(<<>>, probed)
    ELSE IF chain[i] = "" THEN find_first_text_from(item, chain, i + 1, probed)
    ELSE LET el == item[chain[i]]
             now == Append(probed, chain[i])
         IN  IF el.kind = "nosuch"
             THEN find_first_text_from(item, chain, i + 1, now)
             ELSE IF el.kind # "elem" THEN Raised(now)
             ELSE IF Strip(el.text) # <<>> THEN Returned(Strip(el.text), now)
             ELSE find_first_text_from(item, chain, i + 1, now)

find_first_text(item, selectors) == find_first_text_from(item, selectors, 1, <<>>)

(***************************************************************************)
(* find_first_attr  (src/ebay_reisegitarren_scraper.py:166-181)            *)
(* Only the href attribute is ever asked for (line 257).                   *)
(***************************************************************************)
RECURSIVE find_first_attr_from(_, _, _, _)
find_first_attr_from(item, chain, i, probed) ==
    IF i > Len(chain) THEN Returned(<<>>, probed)
    ELSE IF chain[i] = "" THEN find_first_attr_from(item, chain, i + 1, probed)
    ELSE LET el == item[chain[i]]
             now == Append(probed, chain[i])
         IN  IF el.kind = "nosuch"
             THEN find_first_attr_from(item, chain, i + 1, now)
             ELSE IF el.kind # "elem" THEN Raised(now)
             ELSE IF el.href.present /\ el.href.value # <<>>
                  THEN Returned(el.href.value, now)
             ELSE find_first_attr_from(item, chain, i + 1, now)

find_first_attr(item, selectors) == find_first_attr_from(item, selectors, 1, <<>>)

(***************************************************************************)
(* The scopes and chains the resolvers are applied to: two selectors, any  *)
(* answer for each, texts of up to MaxTextLen characters, chains of up to    *)
(* MaxChainLen parts.                                                      *)
(***************************************************************************)
MaxTextLen == 3

MaxChainLen == 2

TextChars == {" ", "x"}

Texts == SeqUpTo(TextChars, MaxTextLen)

ChainSelectors == {"s1", "s2"}

Chains == SeqUpTo(ChainSelectors \cup {""}, MaxChainLen)

TextAnswers == {NoSuch, LookupError, ReadError} \cup {Elem("span", t, None) : t \in Texts}

TextScopes == [ChainSelectors -> TextAnswers]

CallFindFirstText ==
    \E item \in TextScopes, chain \in Chains :
        /\ fn = "none"
        /\ fn' = "find_first_text"
        /\ arg' = [item |-> item, selectors |-> chain]
        /\ res' = find_first_text(item, chain)
        /\ UNCHANGED <<runVars, bannerVars>>

\* The href values an element can have: none, empty, blank, a path.
HrefValues == {None, Str(<<>>), Str(<<" ">>), Str(<<"/", "x">>), Str(<<" ", "/", "x">>)}

AttrAnswers == {NoSuch, LookupError, ReadError} \cup {Elem("a", <<"x">>, h) : h \in HrefValues}

AttrScopes == [ChainSelectors -> AttrAnswers]

CallFindFirstAttr ==
    \E item \in AttrScopes, chain \in Chains :
        /\ fn = "none"
        /\ fn' = "find_first_attr"
        /\ arg' = [item |-> item, selectors |-> chain]
        /\ res' = find_first_attr(item, chain)
        /\ UNCHANGED <<runVars, bannerVars>>

SpecText == InitFn /\ [][CallFindFirstText \/ CallFindFirstAttr]_vars

\* The element has text that is not only whitespace.
HasText(el) ==
    el.kind = "elem" /\ \E i \in 1..Len(el.text) : el.text[i] \notin Whitespace

\* t from its first to its last character that is not whitespace.
Trimmed(t) ==
    LET solid == {i \in 1..Len(t) : t[i] \notin Whitespace}
    IN  IF solid = {} THEN <<>>
        ELSE SubSeq(t, CHOOSE i \in solid : \A j \in solid : i <= j,
                       CHOOSE i \in solid : \A j \in solid : i >= j)

IsBlankPart(sel) == sel = ""

IsSelector(sel) == ~IsBlankPart(sel)

\* The positions of the chain whose element has text.
TextHits(item, chain) ==
    {i \in 1..Len(chain) : IsSelector(chain[i]) /\ HasText(item[chain[i]])}

FirstOf(S) == CHOOSE i \in S : \A j \in S : i <= j

\* C3: find_first_text returns the trimmed text of the first alternative, in
\* chain order, whose element has text that is not only whitespace, and the
\* empty string if there is none; the alternatives after the first hit are
\* not looked up.
C3_FirstHit ==
    fn = "find_first_text" =>
        LET hits == TextHits(arg.item, arg.selectors)
        IN  /\ ~res.raised
            /\ IF hits = {} THEN res.value = <<>>
               ELSE /\ res.value = Trimmed(arg.item[arg.selectors[FirstOf(hits)]].text)
                    /\ res.probed =
                           SelectSeq(SubSeq(arg.selectors, 1, FirstOf(hits)), IsSelector)

\* C14: find_first_text and find_first_attr never raise: whatever failure
\* the lookup of an alternative or the read of its text or attribute
\* produces, the alternative counts as a miss and a string is returned.
C14_NeverRaises ==
    fn \in {"find_first_text", "find_first_attr"} => ~res.raised

(***************************************************************************)
(* extract_field_from_element  (src/Scraping/e_bay_scraping.py:82-92)      *)
(***************************************************************************)
\* str.lower() on the tag names the model uses.
Lower(tag) == IF tag = "A" THEN "a" ELSE tag

\* The mutant of extract_field_from_element: a link without href counts as
\* a failed lookup.
extract_field_href_only(item, selector) ==
    LET elem == item[selector]
    IN  IF elem.kind # "elem" THEN <<>>
        ELSE IF Lower(elem.tag) = "a"
             THEN IF elem.href.present THEN elem.href.value ELSE <<>>
             ELSE Strip(elem.text)

extract_field_from_element(item, selector) ==
    LET elem == item[selector]
    IN  IF elem.kind # "elem" THEN <<>>
        ELSE IF Lower(elem.tag) = "a"
             THEN IF elem.href.present THEN elem.href.value ELSE Strip(elem.text)
             ELSE Strip(elem.text)

(***************************************************************************)
(* scrape_page  (src/Scraping/e_bay_scraping.py:94-115)                    *)
(* load is what the browser does for this call: status says how far the    *)
(* call gets (get_error: driver.get raises; timeout: no item appears in    *)
(* WAIT_TIMEOUT; wait_error, find_error: the wait or find_elements raises  *)
(* something else; ok), items are the elements find_elements returns.      *)
(***************************************************************************)
\* FIELD_SELECTORS
FIELD_SELECTORS == [title |-> ".title", price |-> ".price", link |-> "a"]

\* What a scraper call gives: whether an exception leaves it, the rows it
\* returns, and the steps it took on the driver, in order ("get", "dismiss",
\* "wait", "find_elements", and one "extract" per element worked on).
Rows(rows, steps) == [raised |-> FALSE, rows |-> rows, steps |-> steps]

Propagates(steps) == [raised |-> TRUE, rows |-> <<>>, steps |-> steps]

\* One record per element: every field of FIELD_SELECTORS, nothing else.
PageRecord(item) ==
    [field_name \in DOMAIN FIELD_SELECTORS |->
        extract_field_from_element(item, FIELD_SELECTORS[field_name])]

\* Lines 107-115: the elements are enumerated and a record is made of each.
page_rows(items, steps) ==
    Rows([i \in 1..Len(items) |-> PageRecord(items[i])],
         steps \o <<"find_elements">> \o [i \in 1..Len(items) |-> "extract"])

\* The mutant of scrape_page: the timeout of the wait is ignored.
scrape_page_ignores_timeout(load) ==
    IF load.status = "get_error" THEN Propagates(<<"get">>)
    ELSE IF load.status = "wait_error" THEN Propagates(<<"get", "wait">>)
    ELSE IF load.status = "find_error"
         THEN Propagates(<<"get", "wait", "find_elements">>)
    ELSE page_rows(load.items, <<"get", "wait">>)

scrape_page(load) ==
    IF load.status = "get_error" THEN Propagates(<<"get">>)
    ELSE IF load.status = "wait_error" THEN Propagates(<<"get", "wait">>)
    ELSE IF load.status = "timeout" THEN Rows(<<>>, <<"get", "wait">>)
    ELSE IF load.status = "find_error"
         THEN Propagates(<<"get", "wait", "find_elements">>)
    ELSE page_rows(load.items, <<"get", "wait">>)

(***************************************************************************)
(* scrape_first_page  (src/ebay_reisegitarren_scraper.py:198-279)          *)
(***************************************************************************)
\* MAX_ITEMS = 500 in the source; scaled down so that pages longer than the
\* limit are within the bounds.
MAX_ITEMS == 2

\* The three selector strings, split at "," and stripped.
LINK_SELECTOR == <<"a.s-item__link", "a[href*='/itm/']", "a">>

TITLE_SELECTOR == <<"h3.s-item__title", ".s-item__title", ".brwrvr__title", "h3">>

PRICE_SELECTOR ==
    << "span.s-item__price", ".s-item__price", ".brwrvr__price",
       "span[aria-label*='Preis']", "div.s-item__detail span", "bsig__price",
       "span.bsig__price", "span.bsig__price--display" >>

ItemSelectors == Range(LINK_SELECTOR) \cup Range(TITLE_SELECTOR) \cup Range(PRICE_SELECTOR)

\* text.split("\n")[0]
FirstLine(text) ==
    IF \E i \in 1..Len(text) : text[i] = "\n"
    THEN SubSeq(text, 1, (CHOOSE i \in 1..Len(text) :
                             /\ text[i] = "\n"
                             /\ \A j \in 1..(i - 1) : text[j] # "\n") - 1)
    ELSE text

\* Lines 262-267: the title taken from the element's own text; reading the
\* text may raise, which leaves the title empty.
FallbackTitle(item) ==
    IF item.text.present THEN Strip(FirstLine(item.text.value)) ELSE <<>>

\* The mutant of ExtractListing: the identifier is derived from the text of
\* the element instead of the link extracted.
ExtractListingIdFromText(item) ==
    LET href == find_first_attr(item.probe, LINK_SELECTOR)
        title == find_first_text(item.probe, TITLE_SELECTOR)
        price == find_first_text(item.probe, PRICE_SELECTOR)
        item_id == extract_item_id_from_url(item.text.value)
    IN  [raised |-> href.raised \/ title.raised \/ price.raised,
         keep |-> href.value # <<>> \/ item_id # <<>>,
         record |-> [id |-> item_id,
                     title |-> IF title.value = <<>> THEN FallbackTitle(item)
                               ELSE title.value,
                     price |-> price.value,
                     link |-> href.value]]

\* Lines 257-276 for one element: the record, whether it is kept, and
\* whether one of the three resolver calls raised.
ExtractListing(item) ==
    LET href == find_first_attr(item.probe, LINK_SELECTOR)
        title == find_first_text(item.probe, TITLE_SELECTOR)
        price == find_first_text(item.probe, PRICE_SELECTOR)
        item_id == extract_item_id_from_url(href.value)
    IN  [raised |-> href.raised \/ title.raised \/ price.raised,
         keep |-> href.value # <<>> \/ item_id # <<>>,
         record |-> [id |-> item_id,
                     title |-> IF title.value = <<>> THEN FallbackTitle(item)
                               ELSE title.value,
                     price |-> price.value,
                     link |-> href.value]]

\* The mutant of first_page_rows: every record is appended.
RECURSIVE first_page_rows_keep_all(_, _, _, _)
first_page_rows_keep_all(items, i, results, steps) ==
    IF i > Len(items) \/ Len(results) >= MAX_ITEMS THEN Rows(results, steps)
    ELSE LET x == ExtractListing(items[i])
         IN  IF x.raised THEN Propagates(Append(steps, "extract"))
             ELSE first_page_rows_keep_all(items, i + 1, Append(results, x.record),
                                           Append(steps, "extract"))

\* Lines 252-279: the loop over the elements, from element i on.
RECURSIVE first_page_rows(_, _, _, _)
first_page_rows(items, i, results, steps) ==
    IF i > Len(items) \/ Len(results) >= MAX_ITEMS THEN Rows(results, steps)
    ELSE LET x == ExtractListing(items[i])
         IN  IF x.raised THEN Propagates(Append(steps, "extract"))
             ELSE first_page_rows(items, i + 1,
                                  IF x.keep THEN Append(results, x.record)
                                  ELSE results,
                                  Append(steps, "extract"))

\* Lines 204-236.  dismiss_cookie_banner is called after driver.get and its
\* value is dropped.  The wait of lines 220-234 catches every exception:
\* timeout and wait_error both give the empty list.
scrape_first_page(load) ==
    IF load.status = "get_error" THEN Propagates(<<"get">>)
    ELSE IF load.status \in {"timeout", "wait_error"}
         THEN Rows(<<>>, <<"get", "dismiss", "wait">>)
    ELSE IF load.status = "find_error"
         THEN Propagates(<<"get", "dismiss", "wait", "find_elements">>)
    ELSE first_page_rows(load.items, 1, <<>>,
                         <<"get", "dismiss", "wait", "find_elements">>)

(***************************************************************************)
(* The pages the two scrapers are applied to.                              *)
(***************************************************************************)
MaxItemsOnPage == 3

LoadStatuses == {"get_error", "timeout", "wait_error", "find_error", "ok"}

\* hrefs: with an item id, without one.
HrefWithId == <<"/", "i", "t", "m", "/", "1", "2", "3", "4", "5", "6">>

HrefNoId == <<"/", "b", "/", "x">>

\* Elements of the template scraper: the answers for ".title", ".price", "a".
LinkAnswers ==
    { NoSuch, LookupError,
      Elem("a", <<" ", "x">>, None),
      Elem("A", <<"x">>, Str(<<>>)),
      Elem("a", <<>>, Str(HrefNoId)),
      Elem("span", <<"x", " ">>, None) }

TitleAnswers == {NoSuch, Elem("h3", <<" ", "x", " ">>, None)}

PageItems ==
    { [sel \in {FIELD_SELECTORS[f] : f \in DOMAIN FIELD_SELECTORS} |->
          IF sel = "a" THEN l
          ELSE IF sel = ".title" THEN t
          ELSE Elem("span", <<"9">>, None)] :
      l \in LinkAnswers, t \in TitleAnswers }

\* A call that does not get to the enumeration may still have elements on
\* the page: they appear after the wait has given up.
PageLoads ==
    {[status |-> st, items |-> is] :
        st \in LoadStatuses \ {"ok"}, is \in SeqUpTo(PageItems, 1)}
        \cup {[status |-> "ok", items |-> is] : is \in SeqUpTo(PageItems, MaxItemsOnPage)}

\* Elements of the single-page scraper: an answer for every selector of the
\* three chains (link1 for the first link selector, link3 for the last,
\* title for "h3", price for the first price selector, no element for the
\* others) and the element's own text (None: reading it raises).
FirstItem(link1, link3, title, price, text) ==
    [probe |-> [sel \in ItemSelectors |->
                   IF sel = LINK_SELECTOR[1] THEN link1
                   ELSE IF sel = LINK_SELECTOR[3] THEN link3
                   ELSE IF sel = TITLE_SELECTOR[4] THEN title
                   ELSE IF sel = PRICE_SELECTOR[1] THEN price
                   ELSE NoSuch],
     text |-> text]

FirstLinkAnswers ==
    { NoSuch, ReadError,
      Elem("a", <<"x">>, None),
      Elem("a", <<"x">>, Str(<<>>)),
      Elem("a", <<"x">>, Str(<<" ">>)),
      Elem("a", <<>>, Str(HrefWithId)),
      Elem("a", <<>>, Str(HrefNoId)) }

FirstTitleAnswers == {NoSuch, LookupError, Elem("h3", <<" ">>, None), Elem("h3", <<"x", " ">>, None)}

FirstPriceAnswers == {NoSuch, Elem("span", <<"9">>, None)}

ItemTexts ==
    { None, Str(<<>>), Str(<<" ", "x", "\n", "y">>), Str(<<"\n", "y">>),
      Str(<<" ", "\n", "y">>) }

\* Every combination, for pages of one element.
FirstItemsAll ==
    { FirstItem(l1, l3, t, p, x) :
        l1 \in FirstLinkAnswers, l3 \in FirstLinkAnswers,
        t \in FirstTitleAnswers, p \in FirstPriceAnswers, x \in ItemTexts }

\* Four elements for the longer pages: a link with an id, a link without,
\* no link at all, and one whose lookup raises.
FirstItemsFew ==
    { FirstItem(Elem("a", <<>>, Str(HrefWithId)), NoSuch, Elem("h3", <<"x">>, None),
                Elem("span", <<"9">>, None), Str(<<"x">>)),
      FirstItem(NoSuch, Elem("a", <<>>, Str(HrefNoId)), NoSuch, NoSuch, Str(<<"y">>)),
      FirstItem(NoSuch, NoSuch, Elem("h3", <<"x">>, None), NoSuch, Str(<<"x">>)),
      FirstItem(ReadError, NoSuch, NoSuch, NoSuch, Str(<<>>)) }

\* banner is what dismiss_cookie_banner returns in the call.
FirstPageLoads ==
    {[status |-> st, items |-> is, banner |-> b] :
        st \in LoadStatuses \ {"ok"}, is \in SeqUpTo(FirstItemsFew, 1), b \in BOOLEAN}
        \cup {[status |-> "ok", items |-> <<it>>, banner |-> b] :
                it \in FirstItemsAll, b \in BOOLEAN}
        \cup {[status |-> "ok", items |-> is, banner |-> b] :
                is \in SeqUpTo(FirstItemsFew, MaxItemsOnPage), b \in BOOLEAN}

CallScrapePage ==
    \E load \in PageLoads :
        /\ fn = "none"
        /\ fn' = "scrape_page"
        /\ arg' = load
        /\ res' = scrape_page(load)
        /\ UNCHANGED <<runVars, bannerVars>>

CallScrapeFirstPage ==
    \E load \in FirstPageLoads :
        /\ fn = "none"
        /\ fn' = "scrape_first_page"
        /\ arg' = load
        /\ res' = scrape_first_page(load)
        /\ UNCHANGED <<runVars, bannerVars>>

SpecScrape == InitFn /\ [][CallScrapePage \/ CallScrapeFirstPage]_vars

\* The identifier of a record: the template scraper's records have no id
\* field, which leaves the identifier empty.
IdOf(record) == IF "id" \in DOMAIN record THEN record.id ELSE <<>>

ScraperCalled == fn \in {"scrape_page", "scrape_first_page"}

\* C1: no record with an empty id and an empty link is in the output of a
\* listing-page scraper, scrape_first_page or the paginated scrape_page.
C1_Retention ==
    ScraperCalled =>
        \A i \in 1..Len(res.rows) :
            ~(IdOf(res.rows[i]) = <<>> /\ res.rows[i].link = <<>>)

\* C13: when no listing element appears within the wait window, the scraper
\* (scrape_page, scrape_first_page) returns the empty list and raises
\* nothing, and it neither enumerates the elements nor extracts a field,
\* also when elements are there after the wait has given up.
C13_TimeoutEmpty ==
    ScraperCalled /\ arg.status = "timeout" =>
        /\ ~res.raised
        /\ res.rows = <<>>
        /\ "find_elements" \notin Range(res.steps)
        /\ "extract" \notin Range(res.steps)
        /\ res.steps[Len(res.steps)] = "wait"

\* The wait of scrape_page timed out on a page whose element came late.
C13_Witness ==
    /\ fn = "scrape_page"
    /\ arg.status = "timeout"
    /\ arg.items # <<>>
    /\ res.rows = <<>>
    /\ ~res.raised

\* The first n elements of s.
Take(s, n) == SubSeq(s, 1, IF n < Len(s) THEN n ELSE Len(s))

IsKept(x) == x.keep

\* The records of the elements scrape_first_page retains, in document order.
KeptRecords(items) ==
    LET kept == SelectSeq([i \in 1..Len(items) |-> ExtractListing(items[i])], IsKept)
    IN  [i \in 1..Len(kept) |-> kept[i].record]

\* The records of all elements, in document order.
AllRecords(items) == [i \in 1..Len(items) |-> PageRecord(items[i])]

\* C18: the output of a scraper is the sequence of the retained records in
\* the document order of their elements, cut once the maximum item count is
\* reached: it is never longer than the maximum, and no record is reordered
\* or dropped as a duplicate.
C18_BoundedOrdered ==
    ScraperCalled /\ arg.status = "ok" /\ ~res.raised =>
        /\ Len(res.rows) <= MAX_ITEMS
        /\ fn = "scrape_first_page" => res.rows = Take(KeptRecords(arg.items), MAX_ITEMS)
        /\ fn = "scrape_page" => res.rows = Take(AllRecords(arg.items), MAX_ITEMS)

\* C20: in a scraper the consent dismissal runs after the navigation to the
\* page and before the wait for listing elements, on every page scraped, and
\* whatever it returns the wait and the extraction run.
C20_DismissBeforeWait ==
    ScraperCalled /\ arg.status # "get_error" =>
        /\ Len(res.steps) >= 3
        /\ SubSeq(res.steps, 1, 3) = <<"get", "dismiss", "wait">>
        /\ arg.status = "ok" =>
              /\ Len(res.steps) >= 4
              /\ res.steps[4] = "find_elements"
              /\ arg.items # <<>> => res.steps[5] = "extract"

(***************************************************************************)
(* click_next  (src/Scraping/e_bay_scraping.py:117-139)                    *)
(* btn is what the browser does for this call: find (ok, nosuch, error),   *)
(* attr (ok, error: get_attribute raises), the disabled attribute (None or *)
(* a string), click (ok, error) and the staleness wait (ok, timeout).  The *)
(* result: the value returned, whether btn.click() completed, whether an   *)
(* exception leaves the function, and the branch taken.                    *)
(***************************************************************************)
Truthy(attr) == attr.present /\ attr.value # <<>>

ClickResult(returned, clicked, branch) ==
    [success |-> returned, clicked |-> clicked, raised |-> FALSE, branch |-> branch]

\* The mutant of click_next: a disabled control is clicked before the call
\* gives up.
click_next_clicks_disabled(btn) ==
    IF btn.find = "nosuch" THEN ClickResult(FALSE, FALSE, "nosuch")
    ELSE IF btn.find = "error" THEN ClickResult(FALSE, FALSE, "find_error")
    ELSE IF btn.attr = "error" THEN ClickResult(FALSE, FALSE, "attr_error")
    ELSE IF Truthy(btn.disabled) THEN ClickResult(FALSE, TRUE, "disabled")
    ELSE IF btn.click = "error" THEN ClickResult(FALSE, FALSE, "click_error")
    ELSE IF btn.stale = "timeout" THEN ClickResult(FALSE, TRUE, "stale_timeout")
    ELSE ClickResult(TRUE, TRUE, "ok")

\* The mutant of click_next: the disabled attribute is not looked at.
click_next_ignores_disabled(btn) ==
    IF btn.find = "nosuch" THEN ClickResult(FALSE, FALSE, "nosuch")
    ELSE IF btn.find = "error" THEN ClickResult(FALSE, FALSE, "find_error")
    ELSE IF btn.attr = "error" THEN ClickResult(FALSE, FALSE, "attr_error")
    ELSE IF btn.click = "error" THEN ClickResult(FALSE, FALSE, "click_error")
    ELSE IF btn.stale = "timeout" THEN ClickResult(FALSE, TRUE, "stale_timeout")
    ELSE ClickResult(TRUE, TRUE, "ok")

\* The mutant of click_next: only the two named exceptions are caught.
click_next_no_catch_all(btn) ==
    IF btn.find = "nosuch" THEN ClickResult(FALSE, FALSE, "nosuch")
    ELSE IF btn.find = "error" \/ btn.attr = "error"
         THEN [success |-> FALSE, clicked |-> FALSE, raised |-> TRUE, branch |-> "error"]
    ELSE IF Truthy(btn.disabled) THEN ClickResult(FALSE, FALSE, "disabled")
    ELSE IF btn.click = "error"
         THEN [success |-> FALSE, clicked |-> FALSE, raised |-> TRUE, branch |-> "click_error"]
    ELSE IF btn.stale = "timeout" THEN ClickResult(FALSE, TRUE, "stale_timeout")
    ELSE ClickResult(TRUE, TRUE, "ok")

click_next(btn) ==
    IF btn.find = "nosuch" THEN ClickResult(FALSE, FALSE, "nosuch")
    ELSE IF btn.find = "error" THEN ClickResult(FALSE, FALSE, "find_error")
    ELSE IF btn.attr = "error" THEN ClickResult(FALSE, FALSE, "attr_error")
    ELSE IF Truthy(btn.disabled) THEN ClickResult(FALSE, FALSE, "disabled")
    ELSE IF btn.click = "error" THEN ClickResult(FALSE, FALSE, "click_error")
    ELSE IF btn.stale = "timeout" THEN ClickResult(FALSE, TRUE, "stale_timeout")
    ELSE ClickResult(TRUE, TRUE, "ok")

\* What the browser can do for one click_next call.
NextButtons ==
    {[find |-> f, attr |-> "ok", disabled |-> None, click |-> "ok", stale |-> "ok"] :
        f \in {"nosuch", "error"}}
      \cup {[find |-> "ok", attr |-> "error", disabled |-> None, click |-> "ok",
             stale |-> "ok"]}
      \cup {[find |-> "ok", attr |-> "ok", disabled |-> Str(<<"t", "r", "u", "e">>),
             click |-> "ok", stale |-> "ok"]}
      \cup {[find |-> "ok", attr |-> "ok", disabled |-> d, click |-> c, stale |-> st] :
              d \in {None, Str(<<>>)}, c \in {"ok", "error"}, st \in {"ok", "timeout"}}

(***************************************************************************)
(* main  (src/Scraping/e_bay_scraping.py:151-199)                          *)
(***************************************************************************)
MAX_PAGES == 10

START_URL ==
    << "h", "t", "t", "p", "s", ":", "/", "/", "w", "w", "w", ".",
       "e", "b", "a", "y", ".", "c", "h", "/", "b", "/", "R", "e",
       "i", "s", "e", "g", "i", "t", "a", "r", "r", "e", "n", "/",
       "1", "5", "9", "9", "4", "8", "/", "b", "n", "_", "7", "2",
       "0", "4", "3", "4", "4" >>

\* The mutant of InRange: one page more than the limit.
InRangeOneMore(p) == p <= MAX_PAGES + 1

\* range(1, MAX_PAGES + 1) still holds p.
InRange(p) == p <= MAX_PAGES

\* The mutant of Extend: the new rows are put in front.
ExtendInFront(results, rows) == rows \o results

\* all_results.extend(rows)
Extend(results, rows) == results \o rows

\* The mutant of IsEmpty: no page counts as empty.
NeverEmpty(rows) == FALSE

\* not page_results
IsEmpty(rows) == rows = <<>>

(***************************************************************************)
(* The site.  A page shows per_page listing elements (at most             *)
(* MaxSiteItems), or none at the moment it is read; each element has a     *)
(* link that names the page and the position, so that records of different *)
(* pages and positions differ.  The URL of page p is the start URL for     *)
(* page 1 and the start URL with a page parameter otherwise.               *)
(***************************************************************************)
MaxSiteItems == 2

SiteItem(p, i) ==
    [sel \in {FIELD_SELECTORS[f] : f \in DOMAIN FIELD_SELECTORS} |->
        IF sel = "a"
        THEN Elem("a", <<>>, Str(<<"/", "p">> \o IntToStr(p) \o <<"/">> \o IntToStr(i)))
        ELSE IF sel = ".title" THEN Elem("h3", <<" ", "x">>, None)
        ELSE NoSuch]

SiteLoads(p) ==
    {[status |-> st, items |-> <<>>] : st \in LoadStatuses \ {"ok"}}
      \cup {[status |-> "ok", items |-> [i \in 1..n |-> SiteItem(p, i)]] :
              n \in {0, per_page}}

SiteUrl(p) == IF p = 1 THEN START_URL ELSE build_url_for_page(START_URL, p)

InitRun ==
    /\ fn = "none"
    /\ arg = <<>>
    /\ res = <<>>
    /\ mode \in {"url", "next_button", "single"}
    /\ ajax \in BOOLEAN
    /\ mode # "next_button" => ajax = FALSE
    /\ per_page \in 1..MaxSiteItems
    /\ mode = "single" => per_page = 1
    /\ pc = "init_driver"
    /\ page = 0
    /\ all_results = <<>>
    /\ driver = "none"
    /\ exc = "none"
    /\ csv = <<>>
    /\ saved = "no"
    /\ render = 0
    /\ url_page = 0
    /\ requests = <<>>
    /\ visits = <<>>
    /\ scrapes = 0
    /\ clicks = 0
    /\ quits = 0
    /\ btn_seen = NoButton
    /\ why = "none"
    /\ success = "none"
    /\ BannerIdle

\* Line 152 (line 297 of ebay_reisegitarren_scraper.py): the driver is
\* provisioned, or init_driver raises and main ends before the try block.
InitDriver ==
    /\ pc = "init_driver"
    /\ \E ok \in BOOLEAN :
          IF ok
          THEN /\ driver' = "open"
               /\ pc' = IF mode = "url" THEN "url_loop"
                        ELSE IF mode = "next_button" THEN "nb_get"
                        ELSE "first_page"
               /\ page' = 1
               /\ exc' = exc
          ELSE /\ driver' = driver
               /\ pc' = "failed"
               /\ page' = page
               /\ exc' = "init_driver"
    /\ UNCHANGED << fnVars, bannerVars, success, mode, ajax, per_page, all_results, csv, saved, render, url_page,
                    requests, visits, scrapes, clicks, quits, why, btn_seen >>

\* The effect of one scrape_page(driver, url) call of main on the page p of
\* the site: the request, the result, and the three ways on (exception,
\* empty page, rows gathered).
ScrapeAndGather(url, p, load, onward) ==
    LET r == scrape_page(load)
    IN  /\ requests' = Append(requests, url)
        /\ scrapes' = scrapes + 1
        /\ render' = IF load.status = "get_error" THEN render ELSE p
        /\ url_page' = IF load.status = "get_error" THEN url_page ELSE p
        /\ IF r.raised
           THEN /\ exc' = "scrape_page"
                /\ pc' = "finally"
                /\ why' = "exception"
                /\ UNCHANGED <<visits, all_results>>
           ELSE /\ visits' = Append(visits, r.rows)
                /\ exc' = exc
                /\ IF IsEmpty(r.rows)
                   THEN /\ pc' = "finally"
                        /\ why' = "empty"
                        /\ all_results' = all_results
                   ELSE /\ pc' = onward
                        /\ why' = why
                        /\ all_results' = Extend(all_results, r.rows)

\* Lines 157-165: one iteration of the loop of the "url" mode.
UrlPage ==
    /\ pc = "url_loop"
    /\ InRange(page)
    /\ \E load \in SiteLoads(page) :
          ScrapeAndGather(build_url_for_page(START_URL, page), page, load, "url_next")
    /\ UNCHANGED <<fnVars, bannerVars, success, mode, ajax, per_page, page, driver, csv, saved, clicks, quits, btn_seen >>

\* Line 165 and the loop header: the pause, then the next page number.
UrlNext ==
    /\ pc = "url_next"
    /\ page' = page + 1
    /\ pc' = "url_loop"
    /\ UNCHANGED << fnVars, bannerVars, success, mode, ajax, per_page, all_results, driver, exc, csv, saved, render,
                    url_page, requests, visits, scrapes, clicks, quits, why, btn_seen >>

\* The range is used up: the loop ends.
LoopEnd ==
    /\ pc \in {"url_loop", "nb_wait"}
    /\ ~InRange(page)
    /\ pc' = "finally"
    /\ why' = "ceiling"
    /\ UNCHANGED << fnVars, bannerVars, success, mode, ajax, per_page, page, all_results, driver, exc, csv, saved,
                    render, url_page, requests, visits, scrapes, clicks, quits, btn_seen >>

\* Line 168: driver.get(START_URL).
NbGet ==
    /\ pc = "nb_get"
    /\ requests' = Append(requests, START_URL)
    /\ \E ok \in BOOLEAN :
          IF ok
          THEN /\ render' = 1
               /\ url_page' = 1
               /\ pc' = "nb_wait"
               /\ UNCHANGED <<exc, why>>
          ELSE /\ exc' = "get"
               /\ pc' = "finally"
               /\ why' = "exception"
               /\ UNCHANGED <<render, url_page>>
    /\ UNCHANGED << fnVars, bannerVars, success, mode, ajax, per_page, page, all_results, driver, csv, saved,
                    visits, scrapes, clicks, quits, btn_seen >>

\* Lines 170-176: the wait for an item on the page shown.
NbWait ==
    /\ pc = "nb_wait"
    /\ InRange(page)
    /\ \E outcome \in {"ok", "timeout", "error"} :
          /\ pc' = IF outcome = "ok" THEN "nb_scrape" ELSE "finally"
          /\ exc' = IF outcome = "error" THEN "wait" ELSE exc
          /\ why' = IF outcome = "ok" THEN why
                     ELSE IF outcome = "timeout" THEN "wait_timeout"
                     ELSE "exception"
    /\ UNCHANGED << fnVars, bannerVars, success, mode, ajax, per_page, page, all_results, driver, csv, saved, render,
                    url_page, requests, visits, scrapes, clicks, quits, btn_seen >>

\* Lines 177-180: scrape_page(driver, driver.current_url), which loads the
\* current URL again.
NbScrape ==
    /\ pc = "nb_scrape"
    /\ \E load \in SiteLoads(url_page) :
          ScrapeAndGather(SiteUrl(url_page), url_page, load, "nb_click")
    /\ UNCHANGED <<fnVars, bannerVars, success, mode, ajax, per_page, page, driver, csv, saved, clicks, quits, btn_seen >>

\* Lines 182-187 and the loop header.  A completed click that the site
\* answers shows the next page; the URL follows unless the site changes the
\* page in place.
NbClick ==
    /\ pc = "nb_click"
    /\ \E btn \in NextButtons :
          LET c == click_next(btn)
          IN  /\ btn_seen' = btn
              /\ success' = IF c.raised THEN success
                            ELSE IF c.success THEN "true" ELSE "false"
              /\ clicks' = IF c.clicked THEN clicks + 1 ELSE clicks
              /\ IF c.raised
                 THEN /\ exc' = "click_next"
                      /\ pc' = "finally"
                      /\ why' = "exception"
                      /\ UNCHANGED <<page, render, url_page>>
                 ELSE IF c.success
                 THEN /\ page' = page + 1
                      /\ pc' = "nb_wait"
                      /\ render' = render + 1
                      /\ url_page' = IF ajax THEN url_page ELSE render + 1
                      /\ UNCHANGED <<exc, why>>
                 ELSE /\ pc' = "finally"
                      /\ why' = c.branch
                      /\ UNCHANGED <<exc, page, render, url_page>>
    /\ UNCHANGED << fnVars, bannerVars, mode, ajax, per_page, all_results, driver, csv, saved, requests,
                    visits, scrapes, quits >>

\* The mutant of Finally: the driver is quit after the try block instead of
\* in a finally clause, so that an exception of the loop skips it.
FinallyOnlyOnSuccess ==
    /\ pc = "finally"
    /\ IF exc = "none"
       THEN /\ quits' = quits + 1
            /\ driver' = "quit"
            /\ \E ok \in BOOLEAN :
                  /\ exc' = IF ok THEN exc ELSE "quit"
                  /\ pc' = IF ok THEN "save" ELSE "failed"
       ELSE /\ pc' = "failed"
            /\ UNCHANGED <<quits, driver, exc>>
    /\ UNCHANGED << fnVars, bannerVars, success, mode, ajax, per_page, page, all_results, csv, saved,
                    render, url_page, requests, visits, scrapes, clicks, why, btn_seen >>

\* Lines 189-190: driver.quit(), which may itself raise.
Finally ==
    /\ pc = "finally"
    /\ quits' = quits + 1
    /\ driver' = "quit"
    /\ \E ok \in BOOLEAN :
          /\ exc' = IF ok THEN exc ELSE "quit"
          /\ pc' = IF ok /\ exc = "none" THEN "save" ELSE "failed"
    /\ UNCHANGED << fnVars, bannerVars, success, mode, ajax, per_page, page, all_results, csv, saved, render,
                    url_page, requests, visits, scrapes, clicks, why, btn_seen >>

\* The mutant of Save: save_to_csv is called whether there are rows or not.
SaveAlways ==
    /\ pc = "save"
    /\ csv' = all_results
    /\ saved' = "csv"
    /\ \E ok \in BOOLEAN :
          /\ pc' = IF ok THEN "done" ELSE "failed"
          /\ exc' = IF ok THEN exc ELSE "save_to_csv"
    /\ UNCHANGED << fnVars, bannerVars, success, mode, ajax, per_page, page, all_results, driver, render, url_page,
                    requests, visits, scrapes, clicks, quits, why, btn_seen >>

\* Lines 192-199: the rows are saved if there are any.
Save ==
    /\ pc = "save"
    /\ IF all_results # <<>>
       THEN /\ csv' = all_results
            /\ saved' = "csv"
            /\ \E ok \in BOOLEAN :
                  /\ pc' = IF ok THEN "done" ELSE "failed"
                  /\ exc' = IF ok THEN exc ELSE "save_to_csv"
       ELSE /\ csv' = csv
            /\ saved' = "nodata"
            /\ pc' = "done"
            /\ exc' = exc
    /\ UNCHANGED << fnVars, bannerVars, success, mode, ajax, per_page, page, all_results, driver, render, url_page,
                    requests, visits, scrapes, clicks, quits, why, btn_seen >>

(***************************************************************************)
(* main  (src/ebay_reisegitarren_scraper.py:296-310)                       *)
(***************************************************************************)
\* What the browser can do for the scrape_first_page call of main.
FirstSiteLoads ==
    {[status |-> st, items |-> <<>>, banner |-> b] :
        st \in LoadStatuses \ {"ok"}, b \in BOOLEAN}
      \cup {[status |-> "ok", items |-> is, banner |-> b] :
              is \in SeqUpTo(FirstItemsFew, MaxSiteItems), b \in BOOLEAN}

\* Lines 298-299: rows = scrape_first_page(driver).
FirstPage ==
    /\ pc = "first_page"
    /\ \E load \in FirstSiteLoads :
          LET r == scrape_first_page(load)
          IN  /\ requests' = Append(requests, START_URL)
              /\ scrapes' = scrapes + 1
              /\ render' = IF load.status = "get_error" THEN render ELSE 1
              /\ url_page' = IF load.status = "get_error" THEN url_page ELSE 1
              /\ IF r.raised
                 THEN /\ exc' = "scrape_first_page"
                      /\ why' = "exception"
                      /\ UNCHANGED <<visits, all_results>>
                 ELSE /\ exc' = exc
                      /\ why' = why
                      /\ visits' = Append(visits, r.rows)
                      /\ all_results' = r.rows
    /\ pc' = "first_finally"
    /\ UNCHANGED <<fnVars, bannerVars, success, mode, ajax, per_page, page, driver, csv, saved,
                   clicks, quits, btn_seen>>

\* Lines 300-304: driver.quit(); an exception of it is swallowed.
FirstFinally ==
    /\ pc = "first_finally"
    /\ quits' = quits + 1
    /\ driver' = "quit"
    /\ pc' = IF exc = "none" THEN "first_save" ELSE "failed"
    /\ UNCHANGED <<fnVars, bannerVars, success, mode, ajax, per_page, page, all_results, exc,
                   csv, saved, render, url_page, requests, visits, scrapes, clicks,
                   btn_seen, why>>

\* Lines 306-310: save_csv if there are rows (an exception of the write is
\* caught inside save_csv), else the two log lines.
FirstSave ==
    /\ pc = "first_save"
    /\ IF all_results # <<>>
       THEN /\ csv' = all_results
            /\ saved' = "csv"
       ELSE /\ csv' = csv
            /\ saved' = "nodata"
    /\ pc' = "done"
    /\ UNCHANGED <<fnVars, bannerVars, success, mode, ajax, per_page, page, all_results,
                   driver, exc, render, url_page, requests, visits, scrapes, clicks,
                   quits, btn_seen, why>>

NextRun ==
    \/ InitDriver
    \/ UrlPage
    \/ UrlNext
    \/ LoopEnd
    \/ NbGet
    \/ NbWait
    \/ NbScrape
    \/ NbClick
    \/ Finally
    \/ Save
    \/ FirstPage
    \/ FirstFinally
    \/ FirstSave

SpecRun == InitRun /\ [][NextRun]_vars


(***************************************************************************)
(* Properties of main.                                                     *)
(***************************************************************************)
\* The loop of main is over: the finally clause, the save, or the end.
Ended == pc \in {"finally", "save", "first_finally", "first_save", "done", "failed"}

\* The rows main holds, as the visits produced them: the rows of every page
\* scrape that returned, in the order of the visits.
Gathered == Concat(visits)

\* The number of steps main can still take, at most: four per page left,
\* then the finally clause and the save.
Rank ==
    LET left == 4 * (MAX_PAGES + 1 - page)
    IN  CASE pc = "init_driver" -> 4 * (MAX_PAGES + 1) + 8
          [] pc = "nb_get" -> 4 * (MAX_PAGES + 1) + 7
          [] pc \in {"url_loop", "nb_scrape"} -> left + 5
          [] pc \in {"url_next", "nb_click"} -> left + 4
          [] pc = "nb_wait" -> left + 6
          [] pc = "first_page" -> 3
          [] pc \in {"finally", "first_finally"} -> 2
          [] pc \in {"save", "first_save"} -> 1
          [] OTHER -> 0

\* C2: in either pagination mode main scrapes at most MAX_PAGES pages and
\* terminates: the number of scrape_page calls never exceeds the ceiling,
\* every step of main lowers a rank that is never negative, and main can
\* take a step until it has ended, whatever the site and the next control do.
C2_Ceiling ==
    /\ [](scrapes <= MAX_PAGES /\ Rank >= 0)
    /\ [][Rank' < Rank]_vars
    /\ [](pc \notin {"done", "failed"} => ENABLED NextRun)

\* The next control was there and every click succeeded, up to the ceiling.
C2_Witness ==
    /\ mode = "next_button"
    /\ pc = "done"
    /\ why = "ceiling"
    /\ scrapes = MAX_PAGES
    /\ clicks = MAX_PAGES

\* C7: in the "url" mode the i-th request is the start URL with the page
\* parameter set to i (1, 2, 3, ...); a page that is empty is the last one
\* requested and ends the loop; the rows held, and the rows saved, are the
\* rows of the pages in the order of the requests.
C7_UrlMode ==
    mode = "url" =>
        /\ \A i \in 1..Len(requests) : IsPageUrl(requests[i], START_URL, "?", i)
        /\ \A i \in 1..Len(visits) :
              visits[i] = <<>> => i = Len(visits) /\ i = Len(requests) /\ Ended
        /\ all_results = Gathered
        /\ saved = "csv" => csv = Gathered

\* Three pages with rows were read, the fourth was empty, the rows are saved.
C7_Witness ==
    /\ mode = "url"
    /\ pc = "done"
    /\ saved = "csv"
    /\ Len(visits) = 4
    /\ visits[4] = <<>>
    /\ Len(csv) = 3 * per_page

\* The next control of the last click_next call was found and its disabled
\* attribute was read and is truthy.
SawDisabled ==
    btn_seen.find = "ok" /\ btn_seen.attr = "ok" /\ Truthy(btn_seen.disabled)

\* C8: in the "next_button" mode, when the next control is found with a
\* truthy disabled attribute, the loop is over with no click on that control
\* (the clicks are those that led to the pages before) and no further scrape,
\* and main holds, and saves, exactly the rows of the pages visited.
C8_DisabledEnds ==
    SawDisabled =>
        /\ mode = "next_button"
        /\ Ended
        /\ why = "disabled"
        /\ exc \in {"none", "quit", "save_to_csv"}
        /\ clicks = page - 1
        /\ scrapes = page
        /\ Len(visits) = page
        /\ all_results = Gathered
        /\ saved = "csv" => csv = Gathered

\* The control is disabled on the third page; three pages of rows are saved.
C8_Witness ==
    /\ SawDisabled
    /\ pc = "done"
    /\ page = 3
    /\ saved = "csv"
    /\ Len(csv) = 3 * per_page

\* The click on the next control of the last click_next call failed, or the
\* wait for the old page to go stale after it timed out.
SawClickFailure ==
    /\ btn_seen.find = "ok"
    /\ btn_seen.attr = "ok"
    /\ ~Truthy(btn_seen.disabled)
    /\ btn_seen.click = "error" \/ btn_seen.stale = "timeout"

\* C9: in the "next_button" mode, when the click on the next control fails
\* or the staleness wait after it times out, the loop is over and no
\* exception of click_next has left it (the finally clause is reached with
\* no exception), and main holds, and saves, the rows of every page visited,
\* each visit once and in order.
C9_ClickFailureEnds ==
    SawClickFailure =>
        /\ mode = "next_button"
        /\ Ended
        /\ why \in {"click_error", "stale_timeout"}
        /\ exc \in {"none", "quit", "save_to_csv"}
        /\ pc = "finally" => exc = "none"
        /\ Len(visits) = page
        /\ all_results = Gathered
        /\ saved = "csv" => csv = Gathered

\* The click fails on the second page; two pages of rows are saved.
C9_Witness ==
    /\ SawClickFailure
    /\ btn_seen.click = "error"
    /\ pc = "done"
    /\ page = 2
    /\ saved = "csv"
    /\ Len(csv) = 2 * per_page


\* The run is over: main has returned or an exception has left it.
RunOver == pc \in {"done", "failed"}

\* C15: once the driver is provisioned, driver.quit is called exactly once on
\* every exit path of a run (normal end, early end of the pagination, an
\* exception raised while scraping): it is never called twice, never before
\* the scraping is over, and no run is over with the driver still open.
C15_ReleasedOnce ==
    /\ quits <= 1
    /\ driver = "none" => quits = 0
    /\ driver = "open" => quits = 0 /\ ~RunOver /\ pc \notin {"save", "first_save"}
    /\ RunOver /\ driver # "none" => quits = 1 /\ driver = "quit"

\* An exception of scrape_page has left main, and the driver is quit.
C15_Witness ==
    /\ pc = "failed"
    /\ exc = "scrape_page"
    /\ Len(visits) = 2
    /\ quits = 1
    /\ driver = "quit"

\* The run came to its end with no exception and with no record.
ZeroRecordRun == RunOver /\ exc = "none" /\ all_results = <<>>

\* C16 as stated: after a run that yields zero records the persistence step
\* (save_csv / save_to_csv) has been invoked, and after a failure of the
\* driver provisioning it has not.
C16_ZeroRecordsSaved ==
    /\ ZeroRecordRun => saved = "csv"
    /\ exc = "init_driver" => saved = "no"

\* C16 amended: a run that ends with no exception and zero records has
\* reached the reporting branch of main (the "no data" log line) and has not
\* invoked the persistence step; a run whose driver provisioning fails has
\* reached neither; the persistence step is invoked only with records.
C16_ZeroRecordsReported ==
    /\ ZeroRecordRun => saved = "nodata" /\ csv = <<>>
    /\ exc = "init_driver" => saved = "no" /\ pc = "failed" /\ scrapes = 0
    /\ saved = "csv" => all_results # <<>>

\* The first page of the "url" mode was empty: nothing saved, the "no data"
\* line logged.
C16_Witness ==
    /\ mode = "url"
    /\ ZeroRecordRun
    /\ scrapes = 1
    /\ visits = << <<>> >>
    /\ saved = "nodata"

\* The causes C17 names, as the history variable why names them: EmptyPage,
\* NoNextControl, Disabled, NavigationTimeout, CeilingReached.
NamedCauses == {"empty", "nosuch", "disabled", "stale_timeout", "ceiling"}

\* All that main holds about the end of its loop: the last page_results
\* (empty or not), the loop variable, and the value of click_next, which is
\* False for an absent control, a disabled one and a staleness timeout
\* alike.  The reason is read off these as finely as they allow; the one
\* value for "click_next returned False" is given to the absent control.
TerminationReason ==
    IF visits # <<>> /\ visits[Len(visits)] = <<>> THEN "empty"
    ELSE IF success = "false" THEN "nosuch"
    ELSE IF ~InRange(page) THEN "ceiling"
    ELSE "other"

\* C17: when the pagination has ended, the controller holds the cause as a
\* termination reason, with a value of its own for each of the causes
\* EmptyPage, NoNextControl, Disabled, NavigationTimeout and CeilingReached.
C17_ReasonRecorded ==
    Ended /\ why \in NamedCauses => TerminationReason = why

(***************************************************************************)
(* try_click, dismiss_cookie_banner                                        *)
(* (src/ebay_reisegitarren_scraper.py:67-144)                              *)
(***************************************************************************)
LowerCase ==
    [ A |-> "a", B |-> "b", C |-> "c", D |-> "d", E |-> "e", F |-> "f", G |-> "g",
      H |-> "h", I |-> "i", J |-> "j", K |-> "k", L |-> "l", M |-> "m", N |-> "n",
      O |-> "o", P |-> "p", Q |-> "q", R |-> "r", S |-> "s", T |-> "t", U |-> "u",
      V |-> "v", W |-> "w", X |-> "x", Y |-> "y", Z |-> "z" ]

\* str.lower
LowerText(s) ==
    [i \in 1..Len(s) |-> IF s[i] \in DOMAIN LowerCase THEN LowerCase[s[i]] ELSE s[i]]

\* k in text
Contains(text, k) ==
    \E i \in 1..(Len(text) - Len(k) + 1) : SubSeq(text, i, i + Len(k) - 1) = k

\* What an element does when it is clicked, and when the click script runs.
Clickables == [click : {"ok", "raises"}, script : {"ok", "raises"}]

\* The mutant of try_click: no fallback to the click script.
try_click_direct_only(el) ==
    [returned |-> el.click = "ok", script_run |-> FALSE, raised |-> FALSE]

\* Lines 69-77: element.click(); if it raises, the click script; if that
\* raises too, False.  script_run says whether execute_script was called.
try_click(el) ==
    IF el.click = "ok" THEN [returned |-> TRUE, script_run |-> FALSE, raised |-> FALSE]
    ELSE [returned |-> el.script = "ok", script_run |-> TRUE, raised |-> FALSE]

\* The record of a try_click call on el.
Clicked(el) == [called |-> TRUE, el |-> el, out |-> try_click(el)]

candidates ==
    << "button[aria-label*='accept']",
       "button[aria-label*='Accept']",
       "button[aria-label*='Akzeptieren']",
       "button[aria-label*='Einverstanden']",
       "button[class*='accept']",
       "button[class*='cookie']",
       "button[class*='consent']",
       "//button[contains(translate(., 'ABCDEFGHIJKLMNOPQRSTUVWXYZ', 'abcdefghijklmnopqrstuvwxyz'), 'accept')]",
       "//button[contains(translate(., 'ABCDEFGHIJKLMNOPQRSTUVWXYZÄÖÜ', 'abcdefghijklmnopqrstuvwxyzäöü'), 'akzept')]",
       "//button[contains(translate(., 'ABCDEFGHIJKLMNOPQRSTUVWXYZ', 'abcdefghijklmnopqrstuvwxyz'), 'einverstanden')]",
       "//a[contains(translate(., 'ABCDEFGHIJKLMNOPQRSTUVWXYZ', 'abcdefghijklmnopqrstuvwxyz'), 'accept')]",
       "//div[contains(@class,'cookie')]//button",
       "//div[contains(@class,'consent')]//button" >>

\* The words of line 129.
AcceptWords ==
    { <<"a", "c", "c", "e", "p", "t">>,
      <<"a", "k", "z", "e", "p", "t">>,
      <<"e", "i", "n", "v", "e", "r", "s", "t", "a", "n", "d", "e", "n">>,
      <<"c", "o", "o", "k", "i", "e">> }

\* Lines 128-129: the text of b, trimmed and in lower case, holds a word.
AcceptLike(t) ==
    LET text == LowerText(Strip(IF t.present THEN t.value ELSE <<>>))
    IN  \E k \in AcceptWords : Contains(text, k)

\* What find_elements can answer: it raises, or it finds n elements.
Found(n) == [raised |-> FALSE, n |-> n]

FindRaised == [raised |-> TRUE, n |-> 0]

MaxBannerEls == 2

MaxFrames == 2

MaxFrameButtons == 2

\* The mutant of els_or_none: the exception of the lookup is not caught.
els_or_raise(answer) == answer

\* Lines 104-110: a lookup that raises counts as one that finds nothing.
els_or_none(answer) == IF answer.raised THEN Found(0) ELSE answer

\* b.text of the buttons and links a frame can show.
ButtonTexts ==
    { None, Str(<<>>), Str(<<"O", "K">>), Str(<<" ", "A", "c", "c", "e", "p", "t", " ">>),
      Str(<<"A", "l", "l", "e", " ", "a", "k", "z", "e", "p", "t", "i", "e", "r", "e", "n">>), Str(<<"C", "o", "o", "k", "i", "e", "s", "\n">>) }


\* The call starts in the top-level document, at the first candidate.
InitBanner ==
    /\ fn = "none"
    /\ arg = <<>>
    /\ res = <<>>
    /\ RunIdle
    /\ BannerAt("candidates")

\* Lines 103-110: the lookup of the candidate at hand.
FindCandidate ==
    /\ bpc = "candidates"
    /\ cand <= Len(candidates)
    /\ \E answer \in {FindRaised} \cup {Found(n) : n \in 0..MaxBannerEls} :
          LET r == els_or_none(answer)
          IN  IF r.raised
              THEN /\ ret' = "raised"
                   /\ bpc' = "returned"
                   /\ UNCHANGED <<els, matched_top, swallowed>>
              ELSE /\ els' = r.n
                   /\ bpc' = "els"
                   /\ matched_top' = (matched_top \/ r.n > 0)
                   /\ swallowed' = (swallowed \/ answer.raised)
                   /\ ret' = ret
    /\ UNCHANGED << fnVars, runVars, cand, iframes, btns, context, activated,
                    matched_frame, entered, last_click, visible >>

\* Lines 112-113: try_click on the next element of the candidate.
ClickCandidate ==
    /\ bpc = "els"
    /\ els > 0
    /\ \E el \in Clickables :
          /\ last_click' = Clicked(el)
          /\ IF try_click(el).returned
             THEN /\ activated' = activated + 1
                  /\ bpc' = "wait"
                  /\ els' = els
             ELSE /\ activated' = activated
                  /\ bpc' = bpc
                  /\ els' = els - 1
    /\ UNCHANGED << fnVars, runVars, cand, iframes, btns, context, ret, matched_top,
                    matched_frame, entered, swallowed, visible >>

\* Lines 115-119: the wait for the element clicked to disappear; whatever
\* its outcome, the call returns True.
WaitInvisible ==
    /\ bpc = "wait"
    /\ \E outcome \in {"gone", "timeout", "error"} :
          /\ visible' = IF outcome = "gone" THEN "no"
                         ELSE IF outcome = "timeout" THEN "yes"
                         ELSE "unknown"
          /\ swallowed' = (swallowed \/ outcome # "gone")
    /\ ret' = "true"
    /\ bpc' = "returned"
    /\ UNCHANGED << fnVars, runVars, cand, els, iframes, btns, context, activated,
                    matched_top, matched_frame, entered, last_click >>

\* Line 103: the elements of the candidate are used up, the next one.
NextCandidate ==
    /\ bpc = "els"
    /\ els = 0
    /\ cand' = cand + 1
    /\ bpc' = "candidates"
    /\ UNCHANGED << fnVars, runVars, els, iframes, btns, context, ret, activated,
                    matched_top, matched_frame, entered, last_click, swallowed, visible >>

\* Lines 121-122, 140-144: the candidates are used up; the iframes are
\* looked up, and the call returns False if that raises.
FindIframes ==
    /\ bpc = "candidates"
    /\ cand > Len(candidates)
    /\ \E answer \in {FindRaised} \cup {Found(n) : n \in 0..MaxFrames} :
          IF answer.raised
          THEN /\ ret' = "false"
               /\ bpc' = "returned"
               /\ swallowed' = TRUE
               /\ iframes' = iframes
          ELSE /\ ret' = ret
               /\ bpc' = "switch"
               /\ swallowed' = swallowed
               /\ iframes' = answer.n
    /\ UNCHANGED << fnVars, runVars, cand, els, btns, context, activated, matched_top,
                    matched_frame, entered, last_click, visible >>

\* Lines 123-125: driver.switch_to.frame(iframe).
SwitchToFrame ==
    /\ bpc = "switch"
    /\ iframes > 0
    /\ \E ok \in BOOLEAN :
          IF ok
          THEN /\ context' = "frame"
               /\ entered' = TRUE
               /\ bpc' = "btns_find"
               /\ swallowed' = swallowed
          ELSE /\ context' = context
               /\ entered' = entered
               /\ bpc' = "except"
               /\ swallowed' = TRUE
    /\ UNCHANGED << fnVars, runVars, cand, els, iframes, btns, ret, activated,
                    matched_top, matched_frame, last_click, visible >>

\* Line 126: the buttons and links of the frame.
FindButtons ==
    /\ bpc = "btns_find"
    /\ \E answer \in {FindRaised} \cup {Found(n) : n \in 0..MaxFrameButtons} :
          IF answer.raised
          THEN /\ bpc' = "except"
               /\ swallowed' = TRUE
               /\ btns' = btns
          ELSE /\ bpc' = "btns"
               /\ swallowed' = swallowed
               /\ btns' = answer.n
    /\ UNCHANGED << fnVars, runVars, cand, els, iframes, context, ret, activated,
                    matched_top, matched_frame, entered, last_click, visible >>


\* Lines 127-131: the text of the next button or link of the frame is read;
\* with an accept-like text it is clicked.  The click removes the overlay or
\* leaves it there; the code does not look.
LookAtButton ==
    /\ bpc = "btns"
    /\ btns > 0
    /\ \E readable \in BOOLEAN, t \in ButtonTexts, el \in Clickables :
          IF ~readable
          THEN /\ bpc' = "except"
               /\ swallowed' = TRUE
               /\ UNCHANGED <<btns, activated, matched_frame, visible, last_click>>
          ELSE /\ swallowed' = swallowed
               /\ matched_frame' = (matched_frame \/ AcceptLike(t))
               /\ last_click' = IF AcceptLike(t) THEN Clicked(el) ELSE last_click
               /\ IF AcceptLike(t) /\ try_click(el).returned
                  THEN /\ activated' = activated + 1
                       /\ bpc' = "leave_hit"
                       /\ btns' = btns
                       /\ \E gone \in BOOLEAN :
                             visible' = IF gone \/ visible = "no" THEN "no" ELSE "yes"
                  ELSE /\ activated' = activated
                       /\ bpc' = bpc
                       /\ btns' = btns - 1
                       /\ visible' = visible
    /\ UNCHANGED << fnVars, runVars, cand, els, iframes, context, ret, matched_top,
                    entered >>

\* Lines 132-135: back to the top-level document after the click, and the
\* call returns True; if default_content raises, the handler of line 137
\* takes over.
LeaveAfterHit ==
    /\ bpc = "leave_hit"
    /\ \E ok \in BOOLEAN :
          IF ok
          THEN /\ context' = "top"
               /\ ret' = "true"
               /\ bpc' = "returned"
               /\ swallowed' = swallowed
          ELSE /\ context' = context
               /\ ret' = ret
               /\ bpc' = "except"
               /\ swallowed' = TRUE
    /\ UNCHANGED << fnVars, runVars, cand, els, iframes, btns, activated, matched_top,
                    matched_frame, entered, last_click, visible >>

\* Line 136: the frame is swept, back to the top-level document.
LeaveFrame ==
    /\ bpc = "btns"
    /\ btns = 0
    /\ \E ok \in BOOLEAN :
          IF ok
          THEN /\ context' = "top"
               /\ iframes' = iframes - 1
               /\ bpc' = "switch"
               /\ swallowed' = swallowed
          ELSE /\ context' = context
               /\ iframes' = iframes
               /\ bpc' = "except"
               /\ swallowed' = TRUE
    /\ UNCHANGED << fnVars, runVars, cand, els, btns, ret, activated, matched_top,
                    matched_frame, entered, last_click, visible >>

\* Lines 137-141: the handler of the sweep of one frame calls
\* default_content and goes on with the next frame; if that call raises,
\* the outer handler ends the sweep and the call returns False.
ExceptInFrame ==
    /\ bpc = "except"
    /\ \E ok \in BOOLEAN :
          IF ok
          THEN /\ context' = "top"
               /\ iframes' = iframes - 1
               /\ bpc' = "switch"
               /\ ret' = ret
          ELSE /\ context' = context
               /\ iframes' = iframes
               /\ bpc' = "returned"
               /\ ret' = "false"
    /\ UNCHANGED << fnVars, runVars, cand, els, btns, activated, matched_top,
                    matched_frame, entered, last_click, swallowed, visible >>

\* Lines 143-144: no frame is left.
ReturnFalse ==
    /\ bpc = "switch"
    /\ iframes = 0
    /\ ret' = "false"
    /\ bpc' = "returned"
    /\ UNCHANGED << fnVars, runVars, cand, els, iframes, btns, context, activated,
                    matched_top, matched_frame, entered, last_click, swallowed, visible >>

NextBanner ==
    \/ FindCandidate
    \/ ClickCandidate
    \/ WaitInvisible
    \/ NextCandidate
    \/ FindIframes
    \/ SwitchToFrame
    \/ FindButtons
    \/ LookAtButton
    \/ LeaveAfterHit
    \/ LeaveFrame
    \/ ExceptInFrame
    \/ ReturnFalse

SpecBanner == InitBanner /\ [][NextBanner]_vars

\* The call is over.
BannerReturned == bpc = "returned"

\* Nothing matched anywhere: no candidate lookup found an element and no
\* frame showed a button or link with an accept-like text.
NoMatchAnywhere == ~matched_top /\ ~matched_frame

\* C10: when no candidate matches anywhere (every lookup of a candidate
\* finds nothing or fails, and no frame shows a button or link with an
\* accept-like text), dismiss_cookie_banner returns False, raises no
\* exception and has clicked nothing.
C10_NoMatchReturnsFalse ==
    BannerReturned /\ NoMatchAnywhere => ret = "false" /\ activated = 0

\* A call that caught an exception, swept a frame without an accept-like
\* text, and returned False.
C10_Witness ==
    /\ BannerReturned
    /\ NoMatchAnywhere
    /\ ret = "false"
    /\ entered
    /\ swallowed
    /\ iframes = 0


\* C11: whenever dismiss_cookie_banner has entered a frame, the driver is in
\* the top-level document again when the call returns, on every exit path
\* (a click inside a frame, a frame without a match, an error inside a frame).
C11_ContextRestored ==
    BannerReturned /\ entered => context = "top"


\* C12: dismiss_cookie_banner returns True if and only if an overlay was
\* detected and removed: it never returns True when the element clicked is
\* still there after the wait, and never returns False after a click that
\* removed the overlay.
C12_TrueIffRemoved ==
    BannerReturned =>
        /\ ret = "true" => visible # "yes"
        /\ ret = "false" => visible # "no"


\* Control is in the sweep of the iframes.
InFrameSweep == bpc \in {"switch", "btns_find", "btns", "leave_hit", "except"}

\* C19: after the first try_click that returns True, dismiss_cookie_banner
\* returns True without looking up or clicking anything else: at most one
\* click succeeds per call; the candidates are tried in the order of the
\* list, and the iframes are swept only after every candidate has failed.
C19_FirstActivationReturns ==
    /\ activated <= 1
    /\ activated >= 1 => bpc \in {"wait", "leave_hit", "returned"}
    /\ BannerReturned /\ activated >= 1 => ret = "true"
    /\ bpc \in {"els", "wait"} => cand \in 1..Len(candidates)
    /\ InFrameSweep \/ entered => cand = Len(candidates) + 1

\* The last try_click call: what the direct click and the click script did.
DirectRaised == last_click.el.click = "raises"

ScriptRaised == last_click.el.script = "raises"

\* C21: try_click runs the click script if and only if the direct click
\* raised; it returns True iff the direct click or, after it raised, the
\* click script went through, False iff both raised, and it never raises.
C21_TwoTactics ==
    last_click.called =>
        /\ last_click.out.script_run <=> DirectRaised
        /\ last_click.out.returned <=> (~DirectRaised \/ ~ScriptRaised)
        /\ ~last_click.out.returned <=> (DirectRaised /\ ScriptRaised)
        /\ ~last_click.out.raised

\* A call in which the direct click raised and the click script went through.
C21_Witness ==
    /\ last_click.called
    /\ DirectRaised
    /\ ~ScriptRaised
    /\ last_click.out.script_run
    /\ last_click.out.returned
    /\ activated > 0

(***************************************************************************)
(* Properties of the records of scrape_first_page                          *)
(***************************************************************************)
ItemKept(item) == ExtractListing(item).keep

\* The elements scrape_first_page retains, in document order.
KeptItems(items) == SelectSeq(items, ItemKept)

\* The first line of a text that is non-empty once trimmed, trimmed; the
\* empty text if there is none.
RECURSIVE FirstNonEmptyLine(_)
FirstNonEmptyLine(text) ==
    IF text = <<>> THEN <<>>
    ELSE LET line == FirstLine(text)
         IN  IF Strip(line) # <<>> THEN Strip(line)
             ELSE IF Len(line) = Len(text) THEN <<>>
             ELSE FirstNonEmptyLine(SubSeq(text, Len(line) + 2, Len(text)))

\* What the title chain yields for an element.
ChainTitle(item) == find_first_text(item.probe, TITLE_SELECTOR).value

\* C22: in a record of scrape_first_page the title is what the title chain
\* yields when it yields a value; when it yields nothing the title is the
\* first non-empty line, trimmed, of the element's full text, and it is empty
\* only if that text has no non-empty line.
C22_TitleFallback ==
    fn = "scrape_first_page" /\ ~res.raised =>
        \A i \in 1..Len(res.rows) :
            LET item == KeptItems(arg.items)[i]
            IN  res.rows[i].title =
                    IF ChainTitle(item) # <<>> THEN ChainTitle(item)
                    ELSE FirstNonEmptyLine(item.text.value)

(***************************************************************************)
(* Properties of extract_field_from_element, seen in the records of        *)
(* scrape_page                                                             *)
(***************************************************************************)
IsHyperlink(elem) == Lower(elem.tag) = "a"

\* The target URL of a hyperlink is there: the attribute is neither missing
\* nor empty.
HasTarget(elem) == elem.href.present /\ elem.href.value # <<>>

\* C23: the value extracted for a selector is the target URL of the element
\* matched when it is a hyperlink with a target URL, the trimmed text of the
\* element when it is a hyperlink whose target URL is missing or empty or
\* when it is no hyperlink, and the empty string when the lookup fails.
C23_LinkOrText ==
    fn = "scrape_page" /\ ~res.raised =>
        \A i \in 1..Len(res.rows) :
            \A field_name \in DOMAIN FIELD_SELECTORS :
                LET elem == arg.items[i][FIELD_SELECTORS[field_name]]
                IN  res.rows[i][field_name] =
                        IF elem.kind # "elem" THEN <<>>
                        ELSE IF IsHyperlink(elem) /\ HasTarget(elem) THEN elem.href.value
                        ELSE Strip(elem.text)

(***************************************************************************)
(* Properties of find_first_attr                                           *)
(***************************************************************************)
\* The attribute of the element is there with a value that is not only
\* whitespace.
HasAttr(el) ==
    /\ el.kind = "elem"
    /\ el.href.present
    /\ \E i \in 1..Len(el.href.value) : el.href.value[i] \notin Whitespace

\* The positions of the chain whose element has such an attribute value.
AttrHits(item, chain) ==
    {i \in 1..Len(chain) : IsSelector(chain[i]) /\ HasAttr(item[chain[i]])}

\* C24: find_first_attr, when it returns, returns the attribute value of
\* the first alternative, in chain order, whose value is neither absent nor
\* empty nor only whitespace, and the empty string if there is none.
C24_BlankAttrIsMiss ==
    fn = "find_first_attr" /\ ~res.raised =>
        LET hits == AttrHits(arg.item, arg.selectors)
        IN  IF hits = {} THEN res.value = <<>>
            ELSE res.value = arg.item[arg.selectors[FirstOf(hits)]].href.value

(***************************************************************************)
(* Properties of extract_item_id_from_url: the run right after the marker  *)
(***************************************************************************)
\* A digit run of length >= 6 directly follows the marker at position p.
DirectRunAt(url, p) == MarkerAt(url, p) /\ LongRunAt(url, p + Len(ItmMarker))

\* C25: for a URL in which a digit run of length >= 6 directly follows the
\* /itm/ marker, the result is such a run, whatever follows it in the URL.
C25_DirectRunWins ==
    (IdCalled /\ \E p \in 1..Len(arg) : DirectRunAt(arg, p)) =>
        \E p \in 1..Len(arg) :
            DirectRunAt(arg, p) /\ res = RunFrom(arg, p + Len(ItmMarker))

(***************************************************************************)
(* Properties of the "next_button" mode: what the records are taken from   *)
(***************************************************************************)
\* The records of the site page p as scrape_page makes them.
RecordsOfRender(p, n) == [i \in 1..n |-> PageRecord(SiteItem(p, i))]

\* C26: in the "next_button" mode the only navigations of a run are the
\* initial load of the start URL and the activations of the next control,
\* so that the records of the k-th page visited are taken from the render
\* the (k-1)-th successful activation has reached (the site page k).
C26_RenderKept ==
    mode = "next_button" =>
        /\ Len(requests) <= 1
        /\ \A k \in 1..Len(visits) : visits[k] = RecordsOfRender(k, Len(visits[k]))

\* C27: in every record scrape_first_page returns, id is what
\* extract_item_id_from_url gives for the record's link; so a record with an
\* empty link has an empty id, and every record retained has a link.
C27_IdFromLink ==
    fn = "scrape_first_page" /\ ~res.raised =>
        \A i \in 1..Len(res.rows) :
            /\ res.rows[i].id = extract_item_id_from_url(res.rows[i].link)
            /\ res.rows[i].link = <<>> => res.rows[i].id = <<>>
            /\ res.rows[i].link # <<>>

\* A call that returns a record with an identifier and one whose link has
\* none, and that leaves out an element.
C27_Witness ==
    /\ fn = "scrape_first_page"
    /\ ~res.raised
    /\ \E i \in 1..Len(res.rows) : res.rows[i].id # <<>>
    /\ \E i \in 1..Len(res.rows) : res.rows[i].id = <<>> /\ res.rows[i].link # <<>>
    /\ Len(arg.items) > Len(res.rows)

=============================================================================
